---- MODULE Spec2Model ----
(***************************************************************************)
(* State-machine model of contracts/VotingSystem.sol: the election ledger  *)
(* (elections, candidate rosters, ballots, publication flags), the events  *)
(* it emits and the block timestamp it reads.  Every transaction is one    *)
(* atomic step (the EVM serialises transactions; a reverted transaction    *)
(* leaves the storage and the event log untouched).                        *)
(***************************************************************************)
EXTENDS Integers, Sequences, FiniteSets, TLC

\* ---------------------------------------------------------------- bounds
\* Elections created (ids 0..MaxElections-1; id MaxElections never exists).
MaxElections == 2
\* Candidates per election (id MaxCandidates is never a valid candidate).
MaxCandidates == 2
\* The clock runs from 0 to MaxTime; start and end times are drawn from it.
MaxTime == 3
\* Events emitted, i.e. successful transactions, in one execution.
MaxLog == 4
\* In-window vote calls recorded per (election, voter).
MaxAttempts == 2

\* Senders; the strings a call carries are opaque to the contract.
Addresses == {"a0", "a1"}
ElectionNames == {"E"}
CandidateNames == {"A"}
Infos == {"i"}
ElectionIds == 0..MaxElections
CandidateIds == 0..MaxCandidates
Times == 0..MaxTime

\* ------------------------------------------------- revert reasons (kinds)
OK == "ok"
Unauthorized == "Only the owner can call this function"
ElectionNotFound == "Election does not exist"
ElectionNotActive == "Election is not active"
ElectionNotEnded == "Election has not ended yet"
AlreadyVoted == "You have already voted in this election"
InvalidTimeRange == "End time must be after start time"
StartNotInFuture == "Start time must be in the future"
ElectionAlreadyStarted == "Cannot add candidates after election has started"
InvalidCandidate == "Invalid candidate"
CandidateNotFound == "Candidate does not exist"
ResultsNotPublished == "Results have not been published yet"

VARIABLES
    owner,             \* address public owner
    electionCount,     \* uint256 public electionCount
    elections,         \* mapping(uint256 => Election)
    candidates,        \* mapping(uint256 => mapping(uint256 => Candidate))
    candidateCounts,   \* mapping(uint256 => uint256)
    hasVoted,          \* mapping(uint256 => mapping(address => bool))
    resultsPublished,  \* mapping(uint256 => bool)
    log,               \* the events emitted so far, in order
    now,               \* block.timestamp
    lastCall,          \* the transaction just processed: function and outcome
    pre,               \* history: storage and log as they were before it ran
    deployer,          \* history: msg.sender of the constructor
    okVotes,           \* history: successful vote calls per (election, voter)
    castOk,            \* history: successful vote calls per (election, candidate)
    pubOk,             \* history: successful publishResults calls per election
    attempts,          \* history: vote calls per (election, voter) made inside the
                       \*          window of an existing election with a valid candidate
    avFails,           \* history: those of them that reverted with AlreadyVoted
    dash               \* the dashboard's fetch in progress: what it has read so far

storage == <<owner, electionCount, elections, candidates, candidateCounts,
             hasVoted, resultsPublished>>
history == <<deployer, okVotes, castOk, pubOk, attempts, avFails>>
vars == <<owner, electionCount, elections, candidates, candidateCounts, hasVoted,
          resultsPublished, log, now, lastCall, pre, deployer, okVotes,
          castOk, pubOk, attempts, avFails, dash>>

\* The storage and the log, as one value.
Snapshot ==
    [owner |-> owner, electionCount |-> electionCount, elections |-> elections,
     candidates |-> candidates, candidateCounts |-> candidateCounts,
     hasVoted |-> hasVoted, resultsPublished |-> resultsPublished, log |-> log]

\* ------------------------------------------------------ storage defaults
NoElection == [name |-> "", description |-> "", startTime |-> 0, endTime |-> 0,
               exists |-> FALSE]
NoCandidate == [name |-> "", info |-> "", voteCount |-> 0]

\* What the sender of a transaction gets back: the function called and either
\* OK or the revert reason.  A successful call's arguments are in the event it
\* emitted, the last entry of the log.
Call(op, result) == [op |-> op, result |-> result]

\* No transaction is being processed: the last outcome has been handed back.
Idle == Call("none", OK)

\* (variant: the new entry put in front of the older ones)
emit_InFront(entry) == <<entry>> \o log

\* emit ...: the event log with one entry appended
emit(entry) == Append(log, entry)

\* Room in the event log: an execution with a single election may emit one
\* event more than MaxLog, so that the election can be created, given two
\* candidates, voted in and published in one execution.
LogRoom == IF electionCount <= 1 THEN MaxLog + 1 ELSE MaxLog

\* -------------------------------------------------------------- modifiers
\* (variant: the modifier left off)
onlyOwner_Anyone(sender) == TRUE

onlyOwner(sender) == sender = owner

electionExists(e) == elections[e].exists

\* (variant: the window taken half-open)
electionActive_EndExclusive(e) ==
    now >= elections[e].startTime /\ now < elections[e].endTime

electionActive(e) ==
    now >= elections[e].startTime /\ now <= elections[e].endTime

\* (variant: the end instant counted as ended)
electionEnded_AtEnd(e) == now >= elections[e].endTime

electionEnded(e) == now > elections[e].endTime

\* (variant: the modifier left off vote)
hasNotVoted_Unchecked(e, sender) == TRUE

hasNotVoted(e, sender) == ~hasVoted[e][sender]

\* ------------------------------------------------------------ constructor
\* (variant: a hard-coded owner instead of msg.sender)
constructor_FixedOwner(sender) ==
    /\ owner = "a1"
    /\ electionCount = 0

constructor(sender) ==
    /\ owner = sender
    /\ electionCount = 0

\* The dashboard between two fetches: nothing read, nothing shown as failed.
\* (wasPublished is history: the election's flag when its count was read.)
DashIdle ==
    [pc |-> "idle", fn |-> "none", e |-> 0, n |-> 0, count |-> 0,
     published |-> FALSE, i |-> 0, err |-> OK, wasPublished |-> FALSE]

Init ==
    /\ deployer = "a0"
    /\ constructor(deployer)
    /\ elections = [e \in ElectionIds |-> NoElection]
    /\ candidates = [e \in ElectionIds |-> [c \in CandidateIds |-> NoCandidate]]
    /\ candidateCounts = [e \in ElectionIds |-> 0]
    /\ hasVoted = [e \in ElectionIds |-> [a \in Addresses |-> FALSE]]
    /\ resultsPublished = [e \in ElectionIds |-> FALSE]
    /\ log = <<>>
    /\ now = 0
    /\ lastCall = Idle
    /\ pre = Snapshot
    /\ okVotes = [e \in ElectionIds |-> [a \in Addresses |-> 0]]
    /\ castOk = [e \in ElectionIds |-> [c \in CandidateIds |-> 0]]
    /\ pubOk = [e \in ElectionIds |-> 0]
    /\ attempts = [e \in ElectionIds |-> [a \in Addresses |-> 0]]
    /\ avFails = [e \in ElectionIds |-> [a \in Addresses |-> 0]]
    /\ dash = DashIdle

\* ------------------------------------------------------------------ clock
\* A new block: block.timestamp never decreases.
Tick ==
    /\ lastCall = Idle
    /\ now < MaxTime
    /\ now' = now + 1
    /\ UNCHANGED <<dash, storage, log, lastCall, pre, history>>

\* Transactions are processed one after the other: the outcome of one is
\* handed back to its sender before the next one runs.
Return ==
    /\ lastCall # Idle
    /\ lastCall' = Idle
    /\ pre' = Snapshot
    /\ UNCHANGED <<dash, storage, log, now, history>>

\* ----------------------------------------------------------------- revert
\* A failing require reverts the transaction: storage and log stay as they
\* were and the sender gets the reason.
\* (variant: a write made before the failing check is kept)
Reverts_KeepsWrite(op, reason) ==
    /\ lastCall = Idle
    /\ lastCall' = Call(op, reason)
    /\ pre' = Snapshot
    /\ electionCount' = electionCount + 1
    /\ UNCHANGED <<dash, owner, elections, candidates, candidateCounts, hasVoted,
                   resultsPublished, log, now, history>>

Reverts(op, reason) ==
    /\ lastCall = Idle
    /\ lastCall' = Call(op, reason)
    /\ pre' = Snapshot
    /\ UNCHANGED <<dash, storage, log, now, history>>

\* --------------------------------------------------------- createElection
\* (variant: a start equal to block.timestamp accepted)
createElectionResult_StartNow(sender, st, en) ==
    IF ~onlyOwner(sender) THEN Unauthorized
    ELSE IF ~(st < en) THEN InvalidTimeRange
    ELSE IF ~(st >= now) THEN StartNotInFuture
    ELSE OK

\* (variant: the two require statements swapped)
createElectionResult_FutureFirst(sender, st, en) ==
    IF ~onlyOwner(sender) THEN Unauthorized
    ELSE IF ~(st > now) THEN StartNotInFuture
    ELSE IF ~(st < en) THEN InvalidTimeRange
    ELSE OK

\* (variant: the time range checked before the sender)
createElectionResult_RangeFirst(sender, st, en) ==
    IF ~(st < en) THEN InvalidTimeRange
    ELSE IF ~onlyOwner(sender) THEN Unauthorized
    ELSE IF ~(st > now) THEN StartNotInFuture
    ELSE OK

\* onlyOwner, then the two require statements, in the order the code runs them.
createElectionResult(sender, st, en) ==
    IF ~onlyOwner(sender) THEN Unauthorized
    ELSE IF ~(st < en) THEN InvalidTimeRange
    ELSE IF ~(st > now) THEN StartNotInFuture
    ELSE OK

\* (variant: the slot of the latest election used again)
newElectionId_Previous == IF electionCount = 0 THEN electionCount ELSE electionCount - 1

\* elections[electionCount] = ...: the slot the new election is stored in
newElectionId == electionCount

\* (variant: the increment left out)
electionCountAfter_NoIncrement == electionCount

\* electionCount++
electionCountAfter == electionCount + 1

createElection(sender, name, description, st, en) ==
    /\ lastCall = Idle
    /\ createElectionResult(sender, st, en) = OK
    /\ electionCount < MaxElections
    /\ Len(log) < MaxLog
    /\ elections' = [elections EXCEPT ![newElectionId] =
           [name |-> name, description |-> description, startTime |-> st,
            endTime |-> en, exists |-> TRUE]]
    /\ log' = emit([kind |-> "ElectionCreated",
                    electionId |-> newElectionId, name |-> name,
                    startTime |-> st, endTime |-> en])
    /\ electionCount' = electionCountAfter
    /\ lastCall' = Call("createElection", OK)
    /\ pre' = Snapshot
    /\ UNCHANGED <<dash, owner, candidates, candidateCounts, hasVoted, resultsPublished,
                   now, history>>

createElectionReverts ==
    \E r \in {createElectionResult(sender, st, en) :
                  sender \in Addresses, st \in Times, en \in Times} \ {OK} :
        Reverts("createElection", r)

\* ----------------------------------------------------------- addCandidate
\* (variant: candidates still accepted at the start instant)
addCandidateResult_AtStart(sender, e) ==
    IF ~onlyOwner(sender) THEN Unauthorized
    ELSE IF ~electionExists(e) THEN ElectionNotFound
    ELSE IF ~(now <= elections[e].startTime) THEN ElectionAlreadyStarted
    ELSE OK

\* (variant: the start time checked before the election's existence)
addCandidateResult_StartFirst(sender, e) ==
    IF ~onlyOwner(sender) THEN Unauthorized
    ELSE IF ~(now < elections[e].startTime) THEN ElectionAlreadyStarted
    ELSE IF ~electionExists(e) THEN ElectionNotFound
    ELSE OK

addCandidateResult(sender, e) ==
    IF ~onlyOwner(sender) THEN Unauthorized
    ELSE IF ~electionExists(e) THEN ElectionNotFound
    ELSE IF ~(now < elections[e].startTime) THEN ElectionAlreadyStarted
    ELSE OK

\* (variant: the increment left out)
candidateCountsAfter_NoIncrement(e) == candidateCounts

\* candidateCounts[_electionId]++
candidateCountsAfter(e) == [candidateCounts EXCEPT ![e] = @ + 1]

addCandidate(sender, e, name, info) ==
    LET candidateId == candidateCounts[e] IN
    /\ lastCall = Idle
    /\ addCandidateResult(sender, e) = OK
    /\ candidateCounts[e] < MaxCandidates
    /\ Len(log) < LogRoom
    /\ candidates' = [candidates EXCEPT ![e][candidateId] =
           [name |-> name, info |-> info, voteCount |-> 0]]
    /\ log' = emit([kind |-> "CandidateAdded", electionId |-> e,
                    candidateId |-> candidateId, name |-> name])
    /\ candidateCounts' = candidateCountsAfter(e)
    /\ lastCall' = Call("addCandidate", OK)
    /\ pre' = Snapshot
    /\ UNCHANGED <<dash, owner, electionCount, elections, hasVoted, resultsPublished,
                   now, history>>

addCandidateReverts ==
    \E r \in {addCandidateResult(sender, e) :
                  sender \in Addresses, e \in ElectionIds} \ {OK} :
        Reverts("addCandidate", r)

\* ------------------------------------------------------------------- vote
\* (variant: the candidate check moved in front of the modifiers' checks)
voteResult_CandidateFirst(sender, e, c) ==
    IF ~(c < candidateCounts[e]) THEN InvalidCandidate
    ELSE IF ~electionExists(e) THEN ElectionNotFound
    ELSE IF ~electionActive(e) THEN ElectionNotActive
    ELSE IF ~hasNotVoted(e, sender) THEN AlreadyVoted
    ELSE OK

\* (variant: the owner not admitted as a voter)
voteResult_OwnerExcluded(sender, e, c) ==
    IF onlyOwner(sender) THEN Unauthorized
    ELSE IF ~electionExists(e) THEN ElectionNotFound
    ELSE IF ~electionActive(e) THEN ElectionNotActive
    ELSE IF ~hasNotVoted(e, sender) THEN AlreadyVoted
    ELSE IF ~(c < candidateCounts[e]) THEN InvalidCandidate
    ELSE OK

\* (variant: the candidate id not checked)
voteResult_AnyCandidate(sender, e, c) ==
    IF ~electionExists(e) THEN ElectionNotFound
    ELSE IF ~electionActive(e) THEN ElectionNotActive
    ELSE IF ~hasNotVoted(e, sender) THEN AlreadyVoted
    ELSE OK

\* Modifiers run left to right, then the body's require.
voteResult(sender, e, c) ==
    IF ~electionExists(e) THEN ElectionNotFound
    ELSE IF ~electionActive(e) THEN ElectionNotActive
    ELSE IF ~hasNotVoted(e, sender) THEN AlreadyVoted
    ELSE IF ~(c < candidateCounts[e]) THEN InvalidCandidate
    ELSE OK

\* A call that runs inside the window of an existing election and names a
\* candidate of its roster: only the ballot record decides its outcome.
InWindowValid(e, c) ==
    /\ elections[e].exists
    /\ elections[e].startTime <= now /\ now <= elections[e].endTime
    /\ c < candidateCounts[e]

\* (variant: the ballot record not written)
recordBallot_Lost(e, sender) == hasVoted

\* (variant: the sender marked in every election)
recordBallot_AllElections(e, sender) ==
    [x \in ElectionIds |-> [hasVoted[x] EXCEPT ![sender] = TRUE]]

\* (variant: the election's ballot map overwritten with the sender alone)
recordBallot_Overwrite(e, sender) ==
    [hasVoted EXCEPT ![e] = [a \in Addresses |-> a = sender]]

\* hasVoted[_electionId][msg.sender] = true
recordBallot(e, sender) == [hasVoted EXCEPT ![e][sender] = TRUE]

\* (variant: the tally left as it was)
countVote_Skipped(e, c) == candidates

\* (variant: the vote credited to the election's first candidate)
countVote_First(e, c) ==
    [candidates EXCEPT ![e][0].voteCount = @ + 1]

\* candidates[_electionId][_candidateId].voteCount++
countVote(e, c) == [candidates EXCEPT ![e][c].voteCount = @ + 1]

vote(sender, e, c) ==
    /\ lastCall = Idle
    /\ voteResult(sender, e, c) = OK
    /\ Len(log) < LogRoom
    /\ InWindowValid(e, c) => attempts[e][sender] < MaxAttempts
    /\ candidates' = countVote(e, c)
    /\ hasVoted' = recordBallot(e, sender)
    /\ log' = emit([kind |-> "VoteCast", electionId |-> e, voter |-> sender])
    /\ lastCall' = Call("vote", OK)
    /\ pre' = Snapshot
    /\ okVotes' = [okVotes EXCEPT ![e][sender] = @ + 1]
    /\ castOk' = [castOk EXCEPT ![e][c] = @ + 1]
    /\ attempts' = IF InWindowValid(e, c)
                   THEN [attempts EXCEPT ![e][sender] = @ + 1]
                   ELSE attempts
    /\ UNCHANGED <<dash, owner, electionCount, elections, candidateCounts,
                   resultsPublished, now, deployer, pubOk, avFails>>

\* A reverted vote that ran inside the window with a valid candidate id is
\* counted among the sender's attempts on the election.
voteRevertsInWindow(sender, e, c) ==
    LET r == voteResult(sender, e, c) IN
    /\ lastCall = Idle
    /\ r # OK
    /\ InWindowValid(e, c)
    /\ attempts[e][sender] < MaxAttempts
    /\ lastCall' = Call("vote", r)
    /\ pre' = Snapshot
    /\ attempts' = [attempts EXCEPT ![e][sender] = @ + 1]
    /\ avFails' = IF r = AlreadyVoted
                  THEN [avFails EXCEPT ![e][sender] = @ + 1]
                  ELSE avFails
    /\ UNCHANGED <<dash, storage, log, now, deployer, okVotes, castOk, pubOk>>

voteReverts ==
    \/ \E sender \in Addresses, e \in ElectionIds, c \in CandidateIds :
           voteRevertsInWindow(sender, e, c)
    \/ \E r \in {voteResult(sender, ec[1], ec[2]) :
                     sender \in Addresses,
                     ec \in {x \in ElectionIds \X CandidateIds :
                                 ~InWindowValid(x[1], x[2])}} \ {OK} :
           Reverts("vote", r)

\* --------------------------------------------------------- publishResults
\* vote as a function of the storage it runs on: s is a Snapshot, the clock
\* is the current one.  voteResultOn is the outcome, voteOn the storage and
\* event log the call leaves behind.
voteResultOn(s, sender, e, c) ==
    IF ~s.elections[e].exists THEN ElectionNotFound
    ELSE IF ~(now >= s.elections[e].startTime /\ now <= s.elections[e].endTime)
         THEN ElectionNotActive
    ELSE IF s.hasVoted[e][sender] THEN AlreadyVoted
    ELSE IF ~(c < s.candidateCounts[e]) THEN InvalidCandidate
    ELSE OK

\* (variant: the ballot recorded for the sender in every election)
voteOn_AllElections(s, sender, e, c) ==
    IF voteResultOn(s, sender, e, c) # OK THEN s
    ELSE [s EXCEPT !.candidates[e][c].voteCount = @ + 1,
                   !.hasVoted = [x \in ElectionIds |->
                                    [s.hasVoted[x] EXCEPT ![sender] = TRUE]],
                   !.log = Append(@, [kind |-> "VoteCast", electionId |-> e,
                                      voter |-> sender])]

voteOn(s, sender, e, c) ==
    IF voteResultOn(s, sender, e, c) # OK THEN s
    ELSE [s EXCEPT !.candidates[e][c].voteCount = @ + 1,
                   !.hasVoted[e][sender] = TRUE,
                   !.log = Append(@, [kind |-> "VoteCast", electionId |-> e,
                                      voter |-> sender])]

\* (variant: a second publication refused)
publishResultsResult_Once(sender, e) ==
    IF ~onlyOwner(sender) THEN Unauthorized
    ELSE IF ~electionExists(e) THEN ElectionNotFound
    ELSE IF ~electionEnded(e) THEN ElectionNotEnded
    ELSE IF resultsPublished[e] THEN "Results already published"
    ELSE OK

\* (variant: the end time checked before the election's existence)
publishResultsResult_EndFirst(sender, e) ==
    IF ~onlyOwner(sender) THEN Unauthorized
    ELSE IF ~electionEnded(e) THEN ElectionNotEnded
    ELSE IF ~electionExists(e) THEN ElectionNotFound
    ELSE OK

publishResultsResult(sender, e) ==
    IF ~onlyOwner(sender) THEN Unauthorized
    ELSE IF ~electionExists(e) THEN ElectionNotFound
    ELSE IF ~electionEnded(e) THEN ElectionNotEnded
    ELSE OK

\* (variant: the flag flipped instead of set)
setPublished_Toggle(e) == [resultsPublished EXCEPT ![e] = ~@]

\* resultsPublished[_electionId] = true
setPublished(e) == [resultsPublished EXCEPT ![e] = TRUE]

publishResults(sender, e) ==
    /\ lastCall = Idle
    /\ publishResultsResult(sender, e) = OK
    /\ Len(log) < LogRoom
    /\ resultsPublished' = setPublished(e)
    /\ log' = emit([kind |-> "ResultsPublished", electionId |-> e])
    /\ lastCall' = Call("publishResults", OK)
    /\ pre' = Snapshot
    /\ pubOk' = [pubOk EXCEPT ![e] = @ + 1]
    /\ UNCHANGED <<dash, owner, electionCount, elections, candidates, candidateCounts,
                   hasVoted, now, deployer, okVotes, castOk, attempts, avFails>>

publishResultsReverts ==
    \E r \in {publishResultsResult(sender, e) :
                  sender \in Addresses, e \in ElectionIds} \ {OK} :
        Reverts("publishResults", r)

\* ------------------------------------------------------------ view calls
Ret(v) == [ok |-> TRUE, val |-> v]
Revert(reason) == [ok |-> FALSE, val |-> reason]

getElectionCount == Ret(electionCount)

getCandidateCount(e) ==
    IF ~electionExists(e) THEN Revert(ElectionNotFound)
    ELSE Ret(candidateCounts[e])

\* Parameterised by the candidates mapping it reads.
getCandidateOf(cands, e, c) ==
    IF ~(e < electionCount) THEN Revert(ElectionNotFound)
    ELSE IF ~(c < candidateCounts[e]) THEN Revert(CandidateNotFound)
    ELSE Ret(<<cands[e][c].name, cands[e][c].info>>)

getCandidate(e, c) == getCandidateOf(candidates, e, c)

\* (variant: the resultsPublished requirement left out)
getVoteCount_NoGate(e, c) ==
    IF ~(e < electionCount) THEN Revert(ElectionNotFound)
    ELSE IF ~(c < candidateCounts[e]) THEN Revert(CandidateNotFound)
    ELSE Ret(candidates[e][c].voteCount)

\* (variant: the count of the election's first candidate returned)
getVoteCount_First(e, c) ==
    IF ~(e < electionCount) THEN Revert(ElectionNotFound)
    ELSE IF ~(c < candidateCounts[e]) THEN Revert(CandidateNotFound)
    ELSE IF ~resultsPublished[e] THEN Revert(ResultsNotPublished)
    ELSE Ret(candidates[e][0].voteCount)

\* (variant: the published flag checked before the candidate id)
getVoteCount_PublishedFirst(e, c) ==
    IF ~(e < electionCount) THEN Revert(ElectionNotFound)
    ELSE IF ~resultsPublished[e] THEN Revert(ResultsNotPublished)
    ELSE IF ~(c < candidateCounts[e]) THEN Revert(CandidateNotFound)
    ELSE Ret(candidates[e][c].voteCount)

getVoteCount(e, c) ==
    IF ~(e < electionCount) THEN Revert(ElectionNotFound)
    ELSE IF ~(c < candidateCounts[e]) THEN Revert(CandidateNotFound)
    ELSE IF ~resultsPublished[e] THEN Revert(ResultsNotPublished)
    ELSE Ret(candidates[e][c].voteCount)

\* The getters Solidity generates for the public state variables.
ownerGetter == Ret(owner)
electionCountGetter == Ret(electionCount)
electionsGetter(e) ==
    Ret(<<elections[e].name, elections[e].description, elections[e].startTime,
          elections[e].endTime, elections[e].exists>>)
candidatesGetterOf(cands, e, c) ==
    Ret(<<cands[e][c].name, cands[e][c].info, cands[e][c].voteCount>>)
candidatesGetter(e, c) == candidatesGetterOf(candidates, e, c)
candidateCountsGetter(e) == Ret(candidateCounts[e])
hasVotedGetter(e, a) == Ret(hasVoted[e][a])
resultsPublishedGetter(e) == Ret(resultsPublished[e])

\* ------------------------------------------------------------ transitions
\* Any sender may submit any call with any arguments at any time.
CreateElection ==
    \E sender \in Addresses, name \in ElectionNames, description \in Infos,
       st \in Times, en \in Times :
        createElection(sender, name, description, st, en)

AddCandidate ==
    \E sender \in Addresses, e \in ElectionIds, name \in CandidateNames,
       info \in Infos :
        addCandidate(sender, e, name, info)

Vote ==
    \E sender \in Addresses, e \in ElectionIds, c \in CandidateIds :
        vote(sender, e, c)

PublishResults ==
    \E sender \in Addresses, e \in ElectionIds : publishResults(sender, e)

Next ==
    \/ Tick
    \/ Return
    \/ CreateElection \/ createElectionReverts
    \/ AddCandidate \/ addCandidateReverts
    \/ Vote \/ voteReverts
    \/ PublishResults \/ publishResultsReverts

Spec == Init /\ [][Next]_vars

\* -------------------------------------------------------------- dashboard
\* The pages read the contract with one call per await; transactions of
\* other users are mined between any two of the calls.  dash.pc names the
\* call the fetch makes next, dash.fn the function that is running.

\* The loop over candidates after its counter has been set: the next call it
\* makes.  fetchCandidates reads every candidate and then, if the flag it
\* read was set, the candidate's votes; fetchElections enters its inner loop
\* only if the flag it read was set, and then goes on to the next election.
\* The locals of a loop body go out of scope with it, and those of the
\* function when it is over: they are back at their idle values then.
loopNext(d) ==
    IF d.fn = "fetchCandidates"
    THEN IF d.i < d.count THEN [d EXCEPT !.pc = "getCandidate"]
         ELSE [DashIdle EXCEPT !.pc = "done", !.fn = d.fn]
    ELSE IF d.published /\ d.i < d.count THEN [d EXCEPT !.pc = "getVoteCount"]
         ELSE IF d.e + 1 < d.n
              THEN [DashIdle EXCEPT !.pc = "elections", !.fn = d.fn,
                                    !.e = d.e + 1, !.n = d.n]
              ELSE [DashIdle EXCEPT !.pc = "done", !.fn = d.fn]

\* A rejected call throws: the catch block reports it and the fetch is over.
caught(d, reason) ==
    [DashIdle EXCEPT !.pc = "failed", !.fn = d.fn, !.err = reason]

DashFrame == UNCHANGED <<storage, log, now, lastCall, pre, history>>

\* fetchCandidates(electionId), for an election picked from the list that
\* the page's fetchElections built (ids below the election count it read).
fetchCandidates(electionId) ==
    /\ lastCall = Idle
    /\ dash.pc = "idle"
    /\ electionId < getElectionCount.val
    /\ dash' = [dash EXCEPT !.pc = "getCandidateCount",
                            !.fn = "fetchCandidates",
                            !.e = electionId, !.n = electionId + 1]
    /\ DashFrame

\* fetchElections of the elections manager: const count = getElectionCount()
fetchElections ==
    /\ lastCall = Idle
    /\ dash.pc = "idle"
    /\ dash' = IF 0 < getElectionCount.val
               THEN [dash EXCEPT !.pc = "elections", !.fn = "fetchElections",
                                 !.e = 0, !.n = getElectionCount.val]
               ELSE [dash EXCEPT !.pc = "done", !.fn = "fetchElections"]
    /\ DashFrame

\* const election = await contract.elections(i)
readElection ==
    /\ lastCall = Idle
    /\ dash.pc = "elections"
    /\ dash' = IF electionsGetter(dash.e).ok
               THEN [dash EXCEPT !.pc = "getCandidateCount"]
               ELSE caught(dash, electionsGetter(dash.e).val)
    /\ DashFrame

\* const count = await contract.getCandidateCount(electionId)
readCandidateCount ==
    /\ lastCall = Idle
    /\ dash.pc = "getCandidateCount"
    /\ dash' = IF getCandidateCount(dash.e).ok
               THEN [dash EXCEPT !.pc = "resultsPublished",
                                 !.count = getCandidateCount(dash.e).val,
                                 !.wasPublished = resultsPublished[dash.e]]
               ELSE caught(dash, getCandidateCount(dash.e).val)
    /\ DashFrame

\* const resultsPublished = await contract.resultsPublished(electionId),
\* then the loop starts at i = 0.
readResultsPublished ==
    /\ lastCall = Idle
    /\ dash.pc = "resultsPublished"
    /\ dash' = loopNext([dash EXCEPT
                            !.published = resultsPublishedGetter(dash.e).val,
                            !.i = 0])
    /\ DashFrame

\* const candidate = await contract.getCandidate(electionId, i)
readCandidate ==
    /\ lastCall = Idle
    /\ dash.pc = "getCandidate"
    /\ dash' = IF ~getCandidate(dash.e, dash.i).ok
               THEN caught(dash, getCandidate(dash.e, dash.i).val)
               ELSE IF dash.published
                    THEN [dash EXCEPT !.pc = "getVoteCount"]
                    ELSE loopNext([dash EXCEPT !.i = dash.i + 1])
    /\ DashFrame

\* const votes = await contract.getVoteCount(electionId, i), then i++
readVoteCount ==
    /\ lastCall = Idle
    /\ dash.pc = "getVoteCount"
    /\ dash' = IF ~getVoteCount(dash.e, dash.i).ok
               THEN caught(dash, getVoteCount(dash.e, dash.i).val)
               ELSE loopNext([dash EXCEPT !.i = dash.i + 1])
    /\ DashFrame

\* The finally block: the page shows what was fetched, or the error toast.
dashFinish ==
    /\ lastCall = Idle
    /\ dash.pc \in {"done", "failed"}
    /\ dash' = DashIdle
    /\ DashFrame

FetchCandidates == \E electionId \in ElectionIds : fetchCandidates(electionId)

\* The contract's users and a dashboard page side by side.  A reverted
\* transaction leaves the storage the dashboard reads as it was, so only the
\* transactions that succeed are interleaved with the reads.
NextDash ==
    \/ Tick
    \/ Return
    \/ CreateElection
    \/ AddCandidate
    \/ Vote
    \/ PublishResults
    \/ FetchCandidates
    \/ fetchElections
    \/ readElection
    \/ readCandidateCount
    \/ readResultsPublished
    \/ readCandidate
    \/ readVoteCount
    \/ dashFinish

SpecDash == Init /\ [][NextDash]_vars

\* ======================================================================
\*                               Properties
\* ======================================================================

\* ---- C1: for every (election, voter) pair at most one vote call by that
\* voter on that election has ever succeeded, whatever calls and clock
\* advances were interleaved.
C1_AtMostOneVotePerVoter ==
    \A e \in ElectionIds, a \in Addresses : okVotes[e][a] <= 1

\* One vote succeeded and the same voter tried again inside the window.
C1_Witness ==
    \E e \in ElectionIds, a \in Addresses :
        okVotes[e][a] = 1 /\ attempts[e][a] >= 2

\* ---- C2: of the N vote calls one voter makes on one election (each run
\* inside the window and naming a candidate of the roster, in any
\* interleaving with other transactions), exactly one succeeds and the
\* other N-1 revert with AlreadyVoted.
C2_OneSuccessRestAlreadyVoted ==
    \A e \in ElectionIds, a \in Addresses :
        attempts[e][a] >= 1 =>
            /\ okVotes[e][a] = 1
            /\ avFails[e][a] = attempts[e][a] - 1

\* Two voters each made two attempts on the same election: the attempts of
\* one interleave or follow those of the other.
C2_Witness ==
    \E e \in ElectionIds, a, b \in Addresses :
        /\ a # b
        /\ attempts[e][a] >= 2 /\ avFails[e][a] >= 1
        /\ attempts[e][b] >= 2 /\ avFails[e][b] >= 1

\* ---- C3: getVoteCount is the sole read that can reveal a vote count:
\* every other read (getElectionCount, getCandidateCount, getCandidate,
\* hasVoted and the getters of the public state variables, the candidates
\* mapping included) returns the same in two states that differ only in
\* vote counts.  Stated against the state in which a candidate's count is 0.
WithVoteCount(cands, e, c, k) == [cands EXCEPT ![e][c].voteCount = k]

OtherReads(cands) ==
    <<getElectionCount,
      [e \in ElectionIds |-> getCandidateCount(e)],
      [e \in ElectionIds |-> [c \in CandidateIds |-> getCandidateOf(cands, e, c)]],
      ownerGetter,
      electionCountGetter,
      [e \in ElectionIds |-> electionsGetter(e)],
      [e \in ElectionIds |-> [c \in CandidateIds |-> candidatesGetterOf(cands, e, c)]],
      [e \in ElectionIds |-> candidateCountsGetter(e)],
      [e \in ElectionIds |-> [a \in Addresses |-> hasVotedGetter(e, a)]],
      [e \in ElectionIds |-> resultsPublishedGetter(e)]>>

C3_OnlyGetVoteCountReveals ==
    \A e \in ElectionIds, c \in CandidateIds :
        OtherReads(WithVoteCount(candidates, e, c, 0)) = OtherReads(candidates)

\* ---- C4: for an existing election and candidate getVoteCount reverts with
\* ResultsNotPublished as long as no publishResults call has succeeded for
\* the election, and afterwards returns the number of successful vote calls
\* made for that candidate.
C4_VoteCountGatedAndExact ==
    \A e \in ElectionIds, c \in CandidateIds :
        (e < electionCount /\ c < candidateCounts[e]) =>
            getVoteCount(e, c) = IF pubOk[e] = 0
                                 THEN Revert(ResultsNotPublished)
                                 ELSE Ret(castOk[e][c])

\* A published election one of whose candidates received exactly one vote:
\* getVoteCount returns 1 for it.
C4_Witness ==
    \E e \in ElectionIds, c \in CandidateIds :
        /\ e < electionCount /\ c < candidateCounts[e]
        /\ pubOk[e] >= 1 /\ castOk[e][c] >= 1
        /\ getVoteCount(e, c) = Ret(1)

\* ---- C5: vote checks its preconditions in the order election exists,
\* now within [start, end], voter has not voted, candidate id valid; when
\* several fail at once the revert reason is that of the first failing one.
\* (voteResult is what a call submitted in the current state returns; calls
\* are taken when no other transaction is being processed.)
C5_VoteErrorPrecedence ==
    lastCall = Idle =>
    \A a \in Addresses, e \in ElectionIds, c \in CandidateIds :
        LET exists == elections[e].exists
            within == elections[e].startTime <= now /\ now <= elections[e].endTime
            fresh == ~hasVoted[e][a]
            valid == c < candidateCounts[e]
            r == voteResult(a, e, c)
        IN /\ ~exists => r = ElectionNotFound
           /\ (exists /\ ~within) => r = ElectionNotActive
           /\ (exists /\ within /\ ~fresh) => r = AlreadyVoted
           /\ (exists /\ within /\ fresh /\ ~valid) => r = InvalidCandidate
           /\ (exists /\ within /\ fresh /\ valid) => r = OK

\* A vote just reverted with ElectionNotActive in a state where a voter who
\* has already voted can name an invalid candidate of an ended election:
\* three preconditions fail at once.
C5_Witness ==
    /\ lastCall = Call("vote", ElectionNotActive)
    /\ \E a \in Addresses, e \in ElectionIds, c \in CandidateIds :
        /\ elections[e].exists /\ now > elections[e].endTime
        /\ hasVoted[e][a] /\ ~(c < candidateCounts[e])
        /\ voteResult(a, e, c) = ElectionNotActive

\* ---- C6: for an existing election vote reverts with ElectionNotActive
\* whenever now < start or now > end, and for a voter who has not voted and a
\* valid candidate it succeeds at now == start and at now == end.
C6_WindowInclusive ==
    lastCall = Idle =>
    \A a \in Addresses, e \in ElectionIds, c \in CandidateIds :
        elections[e].exists =>
            /\ (now < elections[e].startTime \/ now > elections[e].endTime)
                   => voteResult(a, e, c) = ElectionNotActive
            /\ ( /\ (now = elections[e].startTime \/ now = elections[e].endTime)
                 /\ ~hasVoted[e][a]
                 /\ c < candidateCounts[e] )
                   => voteResult(a, e, c) = OK

\* A vote has just been cast at the end instant of its election.
C6_Witness ==
    /\ lastCall = Call("vote", OK)
    /\ log # <<>>
    /\ log[Len(log)].kind = "VoteCast"
    /\ now = elections[log[Len(log)].electionId].endTime

\* ---- C7: addCandidate by the administrator on an existing election
\* reverts with ElectionAlreadyStarted whenever now >= start (now == start
\* included) and then leaves the roster unchanged; it succeeds only while
\* now < start.
C7_NoCandidateOnceStarted ==
    /\ lastCall = Idle =>
       \A e \in ElectionIds :
         elections[e].exists =>
             /\ now >= elections[e].startTime
                    => addCandidateResult(owner, e) = ElectionAlreadyStarted
             /\ addCandidateResult(owner, e) = OK
                    => now < elections[e].startTime
    /\ lastCall = Call("addCandidate", ElectionAlreadyStarted)
           => /\ candidates = pre.candidates
              /\ candidateCounts = pre.candidateCounts
              /\ log = pre.log
    /\ lastCall = Call("addCandidate", OK)
           => now < elections[log[Len(log)].electionId].startTime

\* addCandidate was just refused at the very start instant of an election.
C7_Witness ==
    /\ lastCall = Call("addCandidate", ElectionAlreadyStarted)
    /\ \E e \in ElectionIds :
        elections[e].exists /\ now = elections[e].startTime

\* ---- C8: every stored election has start < end and had start strictly
\* greater than the clock when it was created; a createElection call
\* violating either condition (start == now and start == end included) is
\* rejected and changes nothing: no election, no id consumed, no event.
C8_ElectionTimesValid ==
    /\ \A e \in ElectionIds :
         elections[e].exists => elections[e].startTime < elections[e].endTime
    /\ lastCall = Idle =>
       \A st \in Times, en \in Times :
         (st >= en \/ st <= now)
             => createElectionResult(owner, st, en)
                    \in {InvalidTimeRange, StartNotInFuture}
    /\ lastCall = Call("createElection", OK)
           => elections[pre.electionCount].startTime > now
    /\ (lastCall.op = "createElection"
          /\ lastCall.result \in {InvalidTimeRange, StartNotInFuture})
           => Snapshot = pre

\* A createElection was just rejected for its start time while an earlier
\* election exists and the clock has advanced (start == now > 0 is among the
\* rejected calls).
C8_Witness ==
    /\ lastCall = Call("createElection", StartNotInFuture)
    /\ electionCount = 1
    /\ now >= 1

\* ---- C9: createElection, addCandidate and publishResults called by anyone
\* but the administrator revert with Unauthorized and leave the whole state
\* unchanged (election count, rosters, ballots, published flags, event log).
C9_NonAdminRejected ==
    /\ lastCall = Idle =>
       \A a \in Addresses \ {owner} :
         /\ \A st \in Times, en \in Times :
                createElectionResult(a, st, en) = Unauthorized
         /\ \A e \in ElectionIds :
                /\ addCandidateResult(a, e) = Unauthorized
                /\ publishResultsResult(a, e) = Unauthorized
    /\ lastCall.result = Unauthorized
           => /\ Snapshot = pre
              /\ getElectionCount = Ret(pre.electionCount)

\* A non-administrator's createElection was just refused.
C9_Witness ==
    /\ lastCall = Call("createElection", Unauthorized)
    /\ electionCount >= 1
    /\ \E e \in ElectionIds : candidateCounts[e] >= 1

\* ---- C10: the administrator is the identity that deployed the contract and
\* no operation ever changes it.
C10_OwnerFixed == owner = deployer

\* Elections were created, voted in and published, by and with other senders.
C10_Witness ==
    /\ owner = deployer
    /\ \E e \in ElectionIds :
        /\ resultsPublished[e]
        /\ \E a \in Addresses \ {owner} : hasVoted[e][a]

\* ---- C11: publishResults succeeds only strictly after the end time: called
\* by the administrator on an existing election at now <= endTime (now ==
\* endTime included) it is refused with "Election has not ended yet" and the
\* state, the flag included, stays as it was; hence a published election's end
\* time has passed.
C11_PublishOnlyAfterEnd ==
    /\ lastCall = Idle =>
       \A e \in ElectionIds :
         /\ (elections[e].exists /\ now <= elections[e].endTime)
                => publishResultsResult(owner, e) = ElectionNotEnded
         /\ \A a \in Addresses :
                publishResultsResult(a, e) = OK => now > elections[e].endTime
    /\ lastCall = Call("publishResults", ElectionNotEnded)
           => /\ resultsPublished = pre.resultsPublished
              /\ \E e \in ElectionIds :
                    /\ elections[e].exists
                    /\ now <= elections[e].endTime
                    /\ ~resultsPublished[e]
    /\ \A e \in ElectionIds :
           resultsPublished[e] => elections[e].exists /\ now > elections[e].endTime

\* The administrator was just refused at the end instant of an election that
\* has a ballot in it.
C11_Witness ==
    /\ lastCall = Call("publishResults", ElectionNotEnded)
    /\ \E e \in ElectionIds :
        /\ elections[e].exists
        /\ now = elections[e].endTime
        /\ ~resultsPublished[e]
        /\ \E a \in Addresses : hasVoted[e][a]

\* ---- C12: the published flag of every election is false in the initial
\* state and is monotone: no step of any operation takes it from true back to
\* false.
C12_PublishedMonotone ==
    /\ \A e \in ElectionIds : ~resultsPublished[e]
    /\ [][\A e \in ElectionIds : resultsPublished[e] => resultsPublished'[e]]_vars

\* An election was published a second time and is still published.
C12_Witness ==
    /\ lastCall = Call("publishResults", OK)
    /\ \E e \in ElectionIds : pubOk[e] >= 2 /\ resultsPublished[e]

\* ---- C13: publishResults is idempotent on the published flag: the
\* administrator's call on an election that is already published is accepted,
\* leaves the flag true and leaves every election record, candidate, vote
\* count and ballot record (and the other flags) as they were.
C13_RepublishIdempotent ==
    /\ lastCall = Idle =>
       \A e \in ElectionIds :
           resultsPublished[e] => publishResultsResult(owner, e) = OK
    /\ lastCall = Call("publishResults", OK) =>
       LET e == log[Len(log)].electionId IN
         /\ log[Len(log)].kind = "ResultsPublished"
         /\ resultsPublished[e]
         /\ elections = pre.elections
         /\ electionCount = pre.electionCount
         /\ candidates = pre.candidates
         /\ candidateCounts = pre.candidateCounts
         /\ hasVoted = pre.hasVoted
         /\ owner = pre.owner
         /\ \A x \in ElectionIds \ {e} :
                resultsPublished[x] = pre.resultsPublished[x]
         /\ pre.resultsPublished[e] => resultsPublished = pre.resultsPublished

\* The administrator just published, with success, an election that was
\* already published and has a candidate.
C13_Witness ==
    /\ lastCall = Call("publishResults", OK)
    /\ pre.resultsPublished[log[Len(log)].electionId]
    /\ candidateCounts[log[Len(log)].electionId] >= 1

\* Positions of the entries of one kind in an event log.
Logged(l, kind) == {i \in 1..Len(l) : l[i].kind = kind}

\* ---- C14: election ids are handed out in order from 0 and never reused: the
\* k-th successful createElection (k counted from 0) stores the election in a
\* slot that was free, under id k, logs ElectionCreated with id k, starts the
\* election with no candidates and takes electionCount from k to k + 1;
\* electionCount never goes down, and the ids in use are exactly 0 .. count-1,
\* each announced once.
C14_ElectionIdsSequential ==
    /\ electionCount >= pre.electionCount
    /\ electionCount = Cardinality(Logged(log, "ElectionCreated"))
    /\ \A i, j \in Logged(log, "ElectionCreated") :
           log[i].electionId = log[j].electionId => i = j
    /\ lastCall = Call("createElection", OK) =>
       LET k == Cardinality(Logged(pre.log, "ElectionCreated"))
           ev == log[Len(log)]
       IN  /\ pre.electionCount = k
           /\ electionCount = k + 1
           /\ ev.kind = "ElectionCreated"
           /\ ev.electionId = k
           /\ ~pre.elections[k].exists
           /\ elections[k] = [name |-> ev.name, description |-> elections[k].description,
                              startTime |-> ev.startTime, endTime |-> ev.endTime,
                              exists |-> TRUE]
           /\ \A e \in ElectionIds \ {k} : elections[e] = pre.elections[e]
           /\ candidateCounts[k] = 0
           /\ getCandidateCount(k) = Ret(0)

\* The second election was just created, after the first one was given a
\* candidate.
C14_Witness ==
    /\ lastCall = Call("createElection", OK)
    /\ log[Len(log)].electionId = 1
    /\ candidateCounts[0] >= 1

\* Positions of the CandidateAdded entries of one election in an event log.
AddedTo(l, e) == {i \in Logged(l, "CandidateAdded") : l[i].electionId = e}

\* ---- C15: candidate ids are handed out in order from 0 within each
\* election: the k-th successful addCandidate on election e (k counted from 0)
\* stores the candidate under id k with vote count 0, logs CandidateAdded with
\* id k, takes e's candidate count from k to k + 1, and changes neither the
\* other candidates of e nor the roster or candidate count of any other
\* election.
C15_CandidateIdsSequential ==
    /\ \A e \in ElectionIds : candidateCounts[e] = Cardinality(AddedTo(log, e))
    /\ lastCall = Call("addCandidate", OK) =>
       LET ev == log[Len(log)]
           e == ev.electionId
           k == Cardinality(AddedTo(pre.log, e))
       IN  /\ ev.kind = "CandidateAdded"
           /\ pre.candidateCounts[e] = k
           /\ candidateCounts[e] = k + 1
           /\ ev.candidateId = k
           /\ candidates[e][k].name = ev.name
           /\ candidates[e][k].voteCount = 0
           /\ getCandidate(e, k) = Ret(<<ev.name, candidates[e][k].info>>)
           /\ \A c \in CandidateIds \ {k} : candidates[e][c] = pre.candidates[e][c]
           /\ \A x \in ElectionIds \ {e} :
                /\ candidates[x] = pre.candidates[x]
                /\ candidateCounts[x] = pre.candidateCounts[x]

\* A second candidate was just added to an election while another election
\* existed beside it.
C15_Witness ==
    /\ lastCall = Call("addCandidate", OK)
    /\ log[Len(log)].candidateId = 1
    /\ \E x \in ElectionIds \ {log[Len(log)].electionId} : elections[x].exists

\* ---- C16: there is no partial success: a createElection, addCandidate,
\* vote or publishResults call that returns an error leaves the whole state
\* (election records and count, rosters and vote counts, ballot records,
\* published flags, administrator) and the event log exactly as they were
\* before the call.
C16_ErrorLeavesStateUntouched ==
    lastCall.result # OK =>
        /\ lastCall.op \in {"createElection", "addCandidate", "vote", "publishResults"}
        /\ elections = pre.elections
        /\ electionCount = pre.electionCount
        /\ candidates = pre.candidates
        /\ candidateCounts = pre.candidateCounts
        /\ hasVoted = pre.hasVoted
        /\ resultsPublished = pre.resultsPublished
        /\ owner = pre.owner
        /\ log = pre.log

\* An addCandidate call was just refused after the election had started and
\* taken a ballot.
C16_Witness ==
    /\ lastCall = Call("addCandidate", ElectionAlreadyStarted)
    /\ \E e \in ElectionIds, a \in Addresses : hasVoted[e][a]

RECURSIVE SumVotes(_, _, _)
SumVotes(cands, e, n) ==
    IF n = 0 THEN 0 ELSE cands[e][n - 1].voteCount + SumVotes(cands, e, n - 1)

\* The voters recorded in the ballot map of an election.
Voters(e) == {a \in Addresses : hasVoted[e][a]}

\* Positions of the VoteCast entries of one election in an event log.
CastIn(l, e) == {i \in Logged(l, "VoteCast") : l[i].electionId = e}

\* ---- C18: in every state between operations, for every election the sum of
\* its candidates' vote counts equals the number of voters recorded in its
\* ballot map and equals the number of VoteCast entries logged for it; the
\* slots beyond the candidate count hold no votes.
C18_TallyMatchesBallots ==
    \A e \in ElectionIds :
        /\ SumVotes(candidates, e, candidateCounts[e]) = Cardinality(Voters(e))
        /\ Cardinality(Voters(e)) = Cardinality(CastIn(log, e))
        /\ \A c \in CandidateIds :
               c >= candidateCounts[e] => candidates[e][c].voteCount = 0

\* Two voters have voted in one election and the call has returned.
C18_Witness ==
    /\ lastCall = Idle
    /\ \E e \in ElectionIds :
        /\ Cardinality(Voters(e)) = 2
        /\ SumVotes(candidates, e, candidateCounts[e]) = 2

\* ---- C19: ballot records are write-once: hasVoted[e][v] is false as long
\* as no vote by v in e has succeeded, becomes true exactly when one does, and
\* once true is never cleared or overwritten by any later operation, whichever
\* it is and whoever calls it.
C19_BallotWriteOnce ==
    /\ \A e \in ElectionIds, v \in Addresses :
        /\ hasVoted[e][v] <=> okVotes[e][v] >= 1
        /\ hasVotedGetter(e, v) = Ret(hasVoted[e][v])
        /\ pre.hasVoted[e][v] => hasVoted[e][v]
    /\ lastCall # Call("vote", OK) => hasVoted = pre.hasVoted
    /\ lastCall = Call("vote", OK) =>
        /\ ~pre.hasVoted[log[Len(log)].electionId][log[Len(log)].voter]
        /\ hasVoted[log[Len(log)].electionId][log[Len(log)].voter]
        /\ \A e \in ElectionIds, v \in Addresses :
               (hasVoted[e][v] /\ ~pre.hasVoted[e][v])
                   => (e = log[Len(log)].electionId /\ v = log[Len(log)].voter)

\* A voter's ballot record is still set after another voter voted in the same
\* election.
C19_Witness ==
    /\ lastCall = Call("vote", OK)
    /\ \E v \in Addresses \ {log[Len(log)].voter} :
           /\ pre.hasVoted[log[Len(log)].electionId][v]
           /\ hasVoted[log[Len(log)].electionId][v]

\* ---- C20: an election record is immutable after its creation: once an
\* election exists, its name, description, start time, end time and exists
\* flag are the same in every later state, i.e. no operation changes them and
\* they stay the values announced in its ElectionCreated entry.
C20_ElectionRecordImmutable ==
    /\ \A e \in ElectionIds :
           pre.elections[e].exists
               => /\ elections[e] = pre.elections[e]
                  /\ electionsGetter(e) =
                       Ret(<<pre.elections[e].name, pre.elections[e].description,
                             pre.elections[e].startTime, pre.elections[e].endTime,
                             TRUE>>)
    /\ \A i \in Logged(log, "ElectionCreated") :
           LET ev == log[i] IN
             /\ elections[ev.electionId].exists
             /\ elections[ev.electionId].name = ev.name
             /\ elections[ev.electionId].startTime = ev.startTime
             /\ elections[ev.electionId].endTime = ev.endTime

\* An election was given a candidate, voted in and published; a later
\* operation has just run on it.
C20_Witness ==
    /\ lastCall = Call("publishResults", OK)
    /\ \E e \in ElectionIds :
        /\ pre.elections[e].exists
        /\ resultsPublished[e]
        /\ Voters(e) # {}

\* ---- C21: a candidate's vote count starts at 0 and never goes down; it
\* changes only in a successful vote that names that candidate, by exactly 1
\* each time, so it always equals the number of such votes. A candidate's name
\* and info never change once it is added, and no candidate is ever removed:
\* candidate counts never go down.
C21_VoteCountMonotone ==
    \* a reverted call and the return of a call leave every candidate as it was
    /\ (lastCall.result # OK \/ lastCall = Idle) =>
        /\ candidates = pre.candidates
        /\ candidateCounts = pre.candidateCounts
    \* a successful call
    /\ (lastCall.result = OK /\ lastCall # Idle) =>
       \A e \in ElectionIds, c \in CandidateIds :
        /\ candidates[e][c].voteCount >= pre.candidates[e][c].voteCount
        /\ candidates[e][c].voteCount <= pre.candidates[e][c].voteCount + 1
        /\ candidates[e][c].voteCount # pre.candidates[e][c].voteCount
               => /\ lastCall = Call("vote", OK)
                  /\ log[Len(log)].electionId = e
                  /\ c < candidateCounts[e]
        /\ c < pre.candidateCounts[e]
               => /\ candidates[e][c].name = pre.candidates[e][c].name
                  /\ candidates[e][c].info = pre.candidates[e][c].info
                  /\ c < candidateCounts[e]
    /\ lastCall = Call("addCandidate", OK)
           => candidates[log[Len(log)].electionId][log[Len(log)].candidateId].voteCount = 0
    \* the storage reached, as seen between calls
    /\ lastCall = Idle =>
        /\ \A e \in ElectionIds, c \in CandidateIds :
               candidates[e][c].voteCount = castOk[e][c]
        /\ \A i \in Logged(log, "CandidateAdded") :
            /\ log[i].candidateId < candidateCounts[log[i].electionId]
            /\ candidates[log[i].electionId][log[i].candidateId].name = log[i].name

\* A candidate's count just went from 1 to 2.
C21_Witness ==
    /\ lastCall = Call("vote", OK)
    /\ \E e \in ElectionIds, c \in CandidateIds :
        /\ pre.candidates[e][c].voteCount = 1
        /\ candidates[e][c].voteCount = 2
        /\ candidates[e][c].name = pre.candidates[e][c].name

\* The reads of the candidate side fail on out-of-range ids.
CandidateReadsFailOutOfRange ==
    \A e \in ElectionIds :
        IF ~(e < electionCount)
        THEN /\ getCandidateCount(e) = Revert(ElectionNotFound)
             /\ \A c \in CandidateIds :
                    /\ getCandidate(e, c) = Revert(ElectionNotFound)
                    /\ getVoteCount(e, c) = Revert(ElectionNotFound)
        ELSE \A c \in CandidateIds :
                 ~(c < candidateCounts[e])
                     => /\ getCandidate(e, c) = Revert(CandidateNotFound)
                        /\ getVoteCount(e, c) = Revert(CandidateNotFound)

\* ---- C22: the reads fail on out-of-range ids: reading an election with an
\* id >= electionCount fails with "Election does not exist", getCandidateCount
\* and getCandidate with such an election id fail the same way, and
\* getCandidate / getVoteCount with a candidate id >= the election's candidate
\* count fail with "Candidate does not exist".
C22_ReadsFailOutOfRange ==
    /\ CandidateReadsFailOutOfRange
    /\ \A e \in ElectionIds :
           ~(e < electionCount) => electionsGetter(e) = Revert(ElectionNotFound)

\* The kinds of the entries of the event log, in order.
Kinds == [i \in 1..Len(log) |-> log[i].kind]

\* The steps of the scenario: one election, two candidates, one ballot, then
\* publication.
Scenario ==
    <<"ElectionCreated", "CandidateAdded", "CandidateAdded", "VoteCast",
      "ResultsPublished">>

\* ---- C23: end-to-end scenario. On a fresh contract at time T the
\* administrator's createElection with T < start < end succeeds; before start
\* the administrator's addCandidate succeeds twice (candidates 0 and 1);
\* inside the window a vote by V1 for candidate 0 succeeds and a second vote by
\* V1, for candidate 1, fails with "You have already voted in this election";
\* after the end publishResults by the administrator succeeds; then
\* getVoteCount(E,0) returns 1 and getVoteCount(E,1) returns 0.
C23_EndToEnd ==
    /\ (lastCall = Idle /\ log = <<>>) =>
           \A st \in Times, en \in Times :
               (now < st /\ st < en) => createElectionResult(owner, st, en) = OK
    /\ (lastCall = Idle /\ Kinds \in {SubSeq(Scenario, 1, 1), SubSeq(Scenario, 1, 2)}
            /\ now < elections[0].startTime)
           => addCandidateResult(owner, 0) = OK
    /\ (lastCall = Idle /\ Kinds = SubSeq(Scenario, 1, 3)
            /\ now >= elections[0].startTime /\ now <= elections[0].endTime)
           => \A v \in Addresses : voteResult(v, 0, 0) = OK
    /\ (lastCall = Idle /\ Kinds = SubSeq(Scenario, 1, 4)
            /\ now >= elections[0].startTime /\ now <= elections[0].endTime)
           => voteResult(log[Len(log)].voter, 0, 1) = AlreadyVoted
    /\ (lastCall = Idle /\ Kinds = SubSeq(Scenario, 1, 4)
            /\ now > elections[0].endTime)
           => publishResultsResult(owner, 0) = OK
    /\ (Kinds = Scenario /\ castOk[0][0] = 1)
           => /\ getVoteCount(0, 0) = Ret(1)
              /\ getVoteCount(0, 1) = Ret(0)

\* The whole scenario has run: V1 voted for candidate 0, was refused a second
\* ballot, and the administrator has just published.
C23_Witness ==
    /\ Kinds = Scenario
    /\ lastCall = Call("publishResults", OK)
    /\ castOk[0][0] = 1
    /\ avFails[0][log[4].voter] >= 1
    /\ log[4].voter # owner

\* ---- C24: the event log is append-only and ordered: each successful
\* createElection, addCandidate, vote and publishResults appends exactly one
\* entry, of the matching kind and naming the election / candidate / voter the
\* call was about; a failed call appends nothing; no entry is ever removed or
\* altered; the entries stand in the order in which the successful calls were
\* applied (each new entry comes after all earlier ones).
C24_LogAppendOnly ==
    /\ Len(log) >= Len(pre.log)
    /\ SubSeq(log, 1, Len(pre.log)) = pre.log
    /\ lastCall.result # OK => log = pre.log
    /\ lastCall = Idle => log = pre.log
    /\ (lastCall.result = OK /\ lastCall # Idle) =>
       LET ev == log[Len(log)] IN
         /\ Len(log) = Len(pre.log) + 1
         /\ lastCall.op = "createElection" =>
              /\ ev.kind = "ElectionCreated"
              /\ ev.electionId = pre.electionCount
              /\ ~pre.elections[ev.electionId].exists
              /\ elections[ev.electionId].exists
         /\ lastCall.op = "addCandidate" =>
              /\ ev.kind = "CandidateAdded"
              /\ ev.candidateId = pre.candidateCounts[ev.electionId]
              /\ candidateCounts[ev.electionId] = ev.candidateId + 1
              /\ candidates[ev.electionId][ev.candidateId].name = ev.name
         /\ lastCall.op = "vote" =>
              /\ ev.kind = "VoteCast"
              /\ ~pre.hasVoted[ev.electionId][ev.voter]
              /\ hasVoted[ev.electionId][ev.voter]
         /\ lastCall.op = "publishResults" =>
              /\ ev.kind = "ResultsPublished"
              /\ resultsPublished[ev.electionId]
              /\ pubOk[ev.electionId] >= 1
    /\ lastCall = Idle =>
        Len(log) = electionCount
                  + Cardinality(Logged(log, "CandidateAdded"))
                  + Cardinality(Logged(log, "VoteCast"))
                  + Cardinality(Logged(log, "ResultsPublished"))

\* A ballot was just logged after the creation of its election and the
\* addition of two candidates, in that order.
C24_Witness ==
    /\ lastCall = Call("vote", OK)
    /\ Kinds = SubSeq(Scenario, 1, 4)
    /\ log[2].candidateId = 0
    /\ log[3].candidateId = 1

\* The part of a snapshot that the order of two calls must not affect: all of
\* the storage, without the event log.
StorageOf(s) ==
    <<s.owner, s.electionCount, s.elections, s.candidates, s.candidateCounts,
      s.hasVoted, s.resultsPublished>>

\* ---- C25: vote calls on different existing elections are independent: the
\* outcome (success, or which error) of a vote on election A is the same
\* whether or not a vote on a different election B was applied first, and
\* applying the two calls in either order leaves the same election records,
\* vote counts, ballot records and published flags.  Candidate ids range over
\* the roster and the first id beyond it.
C25_VotesOnDifferentElectionsCommute ==
    /\ lastCall = Idle =>
       \A eA \in ElectionIds, eB \in ElectionIds :
         (eA < eB /\ elections[eA].exists /\ elections[eB].exists) =>
           \A a \in Addresses, b \in Addresses,
              cA \in 0..candidateCounts[eA], cB \in 0..candidateCounts[eB] :
             LET sA == voteOn(pre, a, eA, cA)
                 sB == voteOn(pre, b, eB, cB)
             IN  /\ voteResultOn(sB, a, eA, cA) = voteResultOn(pre, a, eA, cA)
                 /\ voteResultOn(sA, b, eB, cB) = voteResultOn(pre, b, eB, cB)
                 /\ StorageOf(voteOn(sA, b, eB, cB)) = StorageOf(voteOn(sB, a, eA, cA))
    \* voteResultOn and voteOn are what the vote transaction does
    /\ lastCall = Idle =>
        /\ pre = Snapshot
        /\ \A a \in Addresses, e \in ElectionIds, c \in CandidateIds :
               voteResultOn(pre, a, e, c) = voteResult(a, e, c)
    /\ lastCall.op = "vote" =>
       \E a \in Addresses, e \in ElectionIds, c \in CandidateIds :
           /\ voteResultOn(pre, a, e, c) = lastCall.result
           /\ voteOn(pre, a, e, c) = Snapshot

\* A ballot was just cast in one election while a different election was
\* open for voting as well.
C25_Witness ==
    /\ lastCall = Call("vote", OK)
    /\ \E eA \in ElectionIds \ {log[Len(log)].electionId} :
        /\ elections[eA].exists
        /\ now >= elections[eA].startTime /\ now <= elections[eA].endTime
        /\ ~hasVoted[eA][log[Len(log)].voter]

\* The error kinds that do not read the clock.
TimeIndependent ==
    {Unauthorized, ElectionNotFound, CandidateNotFound, InvalidTimeRange,
     AlreadyVoted, InvalidCandidate}

\* A step in which every call, of whatever sender and arguments, that fails
\* with an error of K before the step fails after it with the same error, or
\* with one of Also.
Persist(K, Also) ==
    /\ \A a \in Addresses, st \in Times, en \in Times :
           createElectionResult(a, st, en) \in K
               => createElectionResult(a, st, en)'
                      \in {createElectionResult(a, st, en)} \cup Also
    /\ \A a \in Addresses, e \in ElectionIds :
        /\ addCandidateResult(a, e) \in K
               => addCandidateResult(a, e)' \in {addCandidateResult(a, e)} \cup Also
        /\ publishResultsResult(a, e) \in K
               => publishResultsResult(a, e)'
                      \in {publishResultsResult(a, e)} \cup Also
        /\ \A c \in CandidateIds :
               voteResult(a, e, c) \in K
                   => voteResult(a, e, c)' \in {voteResult(a, e, c)} \cup Also
    /\ \A e \in ElectionIds :
        /\ (~getCandidateCount(e).ok /\ getCandidateCount(e).val \in K)
               => getCandidateCount(e)' = getCandidateCount(e)
        /\ \A c \in CandidateIds :
            /\ (~getCandidate(e, c).ok /\ getCandidate(e, c).val \in K)
                   => getCandidate(e, c)' = getCandidate(e, c)
            /\ (~getVoteCount(e, c).ok /\ getVoteCount(e, c).val \in K)
                   => getVoteCount(e, c)' = getVoteCount(e, c)

\* A step that changes the storage or the clock.
Changes == storage' # storage \/ now' # now

C27_CreateElectionPrecedence ==
    /\ lastCall = Idle =>
       \A a \in Addresses, st \in Times, en \in Times :
           createElectionResult(a, st, en) =
               IF a # owner THEN Unauthorized
               ELSE IF st >= en THEN InvalidTimeRange
               ELSE IF st <= now THEN StartNotInFuture
               ELSE OK
    /\ lastCall.op = "createElection"
           => lastCall.result \in {OK, Unauthorized, InvalidTimeRange, StartNotInFuture}

\* The administrator was just refused for the time range at a moment when
\* start times both in the past and in the future exist.
C27_Witness ==
    /\ lastCall = Call("createElection", InvalidTimeRange)
    /\ now >= 1
    /\ now < MaxTime
    /\ electionCount >= 1

\* ---- C28: addCandidate applies its checks in the order sender is the
\* administrator (Unauthorized), election exists (ElectionNotFound), now <
\* start (ElectionAlreadyStarted): anyone else gets Unauthorized, also for an
\* election that does not exist or has started, and the administrator gets
\* ElectionNotFound for an id that was never created, whatever the clock.
C28_AddCandidatePrecedence ==
    /\ lastCall = Idle =>
       \A a \in Addresses, e \in ElectionIds :
           addCandidateResult(a, e) =
               IF a # owner THEN Unauthorized
               ELSE IF ~(e < electionCount) THEN ElectionNotFound
               ELSE IF now >= elections[e].startTime THEN ElectionAlreadyStarted
               ELSE OK
    /\ lastCall.op = "addCandidate"
           => lastCall.result \in
                  {OK, Unauthorized, ElectionNotFound, ElectionAlreadyStarted}

\* The administrator was just refused for an id never created, late on the
\* clock and beside an election that has started.
C28_Witness ==
    /\ lastCall = Call("addCandidate", ElectionNotFound)
    /\ now = MaxTime
    /\ \E e \in ElectionIds : elections[e].exists /\ now >= elections[e].startTime

\* ---- C29: publishResults applies its checks in the order sender is the
\* administrator (Unauthorized), election exists (ElectionNotFound), now > end
\* (ElectionNotEnded): anyone else gets Unauthorized in every state, and the
\* administrator gets ElectionNotFound, neither ElectionNotEnded nor success,
\* for an id that was never created, at every clock value.
C29_PublishResultsPrecedence ==
    /\ lastCall = Idle =>
       \A a \in Addresses, e \in ElectionIds :
           publishResultsResult(a, e) =
               IF a # owner THEN Unauthorized
               ELSE IF ~(e < electionCount) THEN ElectionNotFound
               ELSE IF now <= elections[e].endTime THEN ElectionNotEnded
               ELSE OK
    /\ lastCall.op = "publishResults"
           => lastCall.result \in {OK, Unauthorized, ElectionNotFound, ElectionNotEnded}

\* The administrator was just refused for an id never created, at a time when
\* one election has ended and another has not.
C29_Witness ==
    /\ lastCall = Call("publishResults", ElectionNotFound)
    /\ \E e \in ElectionIds : elections[e].exists /\ now > elections[e].endTime
    /\ \E e \in ElectionIds : elections[e].exists /\ now <= elections[e].endTime

\* ---- C30: getVoteCount checks the election id, then the candidate id, then
\* the published flag: on an existing election that is not published, a
\* candidate id >= the candidate count fails with CandidateNotFound, not with
\* ResultsNotPublished, and ResultsNotPublished is returned only when both ids
\* are in range (and the election is not published).
C30_GetVoteCountPrecedence ==
    lastCall = Idle =>
    \A e \in ElectionIds, c \in CandidateIds :
        /\ (elections[e].exists /\ ~resultsPublished[e] /\ c >= candidateCounts[e])
               => getVoteCount(e, c) = Revert(CandidateNotFound)
        /\ getVoteCount(e, c) = Revert(ResultsNotPublished)
               <=> (e < electionCount /\ c < candidateCounts[e] /\ ~resultsPublished[e])
        /\ ~elections[e].exists => getVoteCount(e, c) = Revert(ElectionNotFound)

\* An election that has ended with a ballot in it and is not published: its
\* candidate's count is withheld, the id beyond its roster is reported missing.
C30_Witness ==
    \E e \in ElectionIds :
        /\ lastCall = Idle
        /\ elections[e].exists
        /\ now > elections[e].endTime
        /\ ~resultsPublished[e]
        /\ candidateCounts[e] >= 1
        /\ candidates[e][0].voteCount >= 1
        /\ getVoteCount(e, 0) = Revert(ResultsNotPublished)
        /\ getVoteCount(e, candidateCounts[e]) = Revert(CandidateNotFound)

\* Positions of the ElectionCreated and of the ResultsPublished entries of one
\* election in an event log.
CreatedAs(l, e) == {i \in Logged(l, "ElectionCreated") : l[i].electionId = e}
PublishedIn(l, e) == {i \in Logged(l, "ResultsPublished") : l[i].electionId = e}

\* ---- C31: each election's life is phase-ordered: in the event log its
\* ElectionCreated entry precedes all its CandidateAdded entries, which precede
\* all its VoteCast entries, which precede all its ResultsPublished entries;
\* once a vote has been cast in an election its candidate count never changes
\* again, so every candidate existed before the first vote.
C31_PhaseOrdered ==
    /\ lastCall = Idle =>
       \A e \in ElectionIds :
        /\ \A i \in CreatedAs(log, e) :
               \A j \in AddedTo(log, e) \cup CastIn(log, e) \cup PublishedIn(log, e) :
                   i < j
        /\ \A i \in AddedTo(log, e) :
               \A j \in CastIn(log, e) \cup PublishedIn(log, e) : i < j
        /\ \A i \in CastIn(log, e) : \A j \in PublishedIn(log, e) : i < j
        /\ (AddedTo(log, e) \cup CastIn(log, e) \cup PublishedIn(log, e)) # {}
               => CreatedAs(log, e) # {}
        /\ Voters(e) # {} => addCandidateResult(owner, e) = ElectionAlreadyStarted
    /\ \A e \in ElectionIds :
           (\E a \in Addresses : pre.hasVoted[e][a])
               => candidateCounts[e] = pre.candidateCounts[e]

\* An election has gone through all four phases.
C31_Witness ==
    /\ lastCall = Idle
    /\ \E e \in ElectionIds :
        /\ AddedTo(log, e) # {}
        /\ CastIn(log, e) # {}
        /\ PublishedIn(log, e) # {}

C33_ExistenceChecksAgree ==
    lastCall = Idle =>
    \A e \in ElectionIds :
        /\ elections[e].exists <=> e < electionCount
        /\ electionExists(e) <=> e < electionCount
        /\ \A c \in CandidateIds :
            /\ getCandidate(e, c) = Revert(ElectionNotFound)
                   <=> getCandidateCount(e) = Revert(ElectionNotFound)
            /\ getVoteCount(e, c) = Revert(ElectionNotFound)
                   <=> getCandidateCount(e) = Revert(ElectionNotFound)
            /\ \A a \in Addresses :
                   voteResult(a, e, c) = ElectionNotFound
                       <=> getCandidate(e, c) = Revert(ElectionNotFound)
        /\ addCandidateResult(owner, e) = ElectionNotFound
               <=> getCandidateCount(e) = Revert(ElectionNotFound)
        /\ publishResultsResult(owner, e) = ElectionNotFound
               <=> getCandidateCount(e) = Revert(ElectionNotFound)
        /\ ~(e < electionCount) =>
            /\ elections[e] = NoElection
            /\ candidateCounts[e] = 0
            /\ \A c \in CandidateIds : candidates[e][c] = NoCandidate
            /\ \A a \in Addresses : ~hasVoted[e][a]
            /\ ~resultsPublished[e]

\* Two elections exist, the first with a candidate and a ballot; a further id
\* was never created.
C33_Witness ==
    /\ lastCall = Idle
    /\ electionCount = 2
    /\ Voters(0) # {}
    /\ \E e \in ElectionIds : ~(e < electionCount)

\* ---- C34: an election that reaches its start time with no candidate can
\* never receive a vote: no candidate can be added any more, every vote on it
\* inside the window fails with "Invalid candidate" for every sender and
\* candidate id (and with "Election is not active" after the window), its
\* ballot map stays empty, and a vote that failed with "Invalid candidate"
\* marks nobody as having voted.
C34_NoCandidatesNoVotes ==
    /\ lastCall = Idle =>
       \A e \in ElectionIds :
           (elections[e].exists /\ now >= elections[e].startTime
                /\ candidateCounts[e] = 0) =>
               /\ Voters(e) = {}
               /\ CastIn(log, e) = {}
               /\ addCandidateResult(owner, e) = ElectionAlreadyStarted
               /\ \A a \in Addresses, c \in CandidateIds :
                      voteResult(a, e, c) =
                          IF now <= elections[e].endTime THEN InvalidCandidate
                          ELSE ElectionNotActive
    /\ lastCall = Call("vote", InvalidCandidate) =>
        /\ hasVoted = pre.hasVoted
        /\ candidates = pre.candidates
        /\ log = pre.log

\* A vote was just refused for its candidate id while one open election has no
\* candidate and another open election has one and a voter still free to vote
\* in it.
C34_Witness ==
    /\ lastCall = Call("vote", InvalidCandidate)
    /\ \E e \in ElectionIds, e2 \in ElectionIds, a \in Addresses :
        /\ elections[e].exists /\ candidateCounts[e] = 0
        /\ now >= elections[e].startTime /\ now <= elections[e].endTime
        /\ elections[e2].exists /\ candidateCounts[e2] >= 1
        /\ now >= elections[e2].startTime /\ now <= elections[e2].endTime
        /\ ~hasVoted[e][a] /\ ~hasVoted[e2][a]

\* ---- C35: every successful publishResults call appends one
\* ResultsPublished entry, also when the election is already published: the
\* number of ResultsPublished entries of an election equals the number of
\* successful publishResults calls on it, and is at least 1 exactly when the
\* published flag is true.
C35_PublishedEntriesCount ==
    /\ lastCall = Idle =>
       \A e \in ElectionIds :
        /\ Cardinality(PublishedIn(log, e)) = pubOk[e]
        /\ pubOk[e] >= 1 <=> resultsPublished[e]
    /\ lastCall = Call("publishResults", OK) =>
        /\ Len(log) = Len(pre.log) + 1
        /\ log[Len(log)].kind = "ResultsPublished"
        /\ Cardinality(PublishedIn(log, log[Len(log)].electionId))
               = Cardinality(PublishedIn(pre.log, log[Len(log)].electionId)) + 1

\* An election was published twice and has two entries.
C35_Witness ==
    /\ lastCall = Idle
    /\ \E e \in ElectionIds :
        /\ pubOk[e] = 2
        /\ Cardinality(PublishedIn(log, e)) = 2
        /\ resultsPublished[e]

\* The identities that made a vote call on an election inside its window for
\* a candidate of its roster.
Attempted(e) == {a \in Addresses : attempts[e][a] >= 1}

\* ---- C36: the administrator is an ordinary voter: vote has no constraint
\* on the sender, so the outcome of a vote is the same for the administrator as
\* for any other identity with the same ballot record, every identity, the
\* administrator included, casts at most one vote per election and can cast
\* one, and the successful votes in an election never outnumber the distinct
\* identities that attempted to vote in it.
C36_AdminVotesLikeAnyone ==
    /\ lastCall = Idle =>
       \A e \in ElectionIds, c \in CandidateIds :
        /\ \A a \in Addresses :
            /\ voteResult(a, e, c) # Unauthorized
            /\ hasVoted[e][a] = hasVoted[e][owner]
                   => voteResult(a, e, c) = voteResult(owner, e, c)
            /\ (elections[e].exists /\ now >= elections[e].startTime
                    /\ now <= elections[e].endTime /\ c < candidateCounts[e]
                    /\ ~hasVoted[e][a])
                   => voteResult(a, e, c) = OK
    /\ lastCall.op = "vote" => lastCall.result # Unauthorized
    /\ lastCall.result = OK =>
       \A e \in ElectionIds :
        /\ \A a \in Addresses : okVotes[e][a] <= 1
        /\ Cardinality(CastIn(log, e)) = Cardinality(Voters(e))
        /\ Voters(e) \subseteq Attempted(e)
        /\ Cardinality(CastIn(log, e)) <= Cardinality(Attempted(e))

\* The administrator and another identity have both voted in one election,
\* and one of them was refused a second ballot.
C36_Witness ==
    \E e \in ElectionIds, a \in Addresses \ {owner} :
        /\ hasVoted[e][owner]
        /\ hasVoted[e][a]
        /\ avFails[e][owner] + avFails[e][a] >= 1

\* ---- C37: the dashboard's check-then-act read of the results is safe
\* whatever transactions are mined between its reads: it calls getVoteCount
\* only for a candidate below the count it read and only after it read the
\* published flag as set, that call is answered, and no call of a fetch is
\* rejected with ResultsNotPublished, CandidateNotFound or ElectionNotFound.
C37_DashboardReadsSafe ==
    /\ dash.err \notin {ResultsNotPublished, CandidateNotFound,
                        ElectionNotFound}
    /\ dash.pc # "failed"
    /\ dash.pc = "getVoteCount" =>
        /\ dash.published
        /\ dash.i < dash.count
        /\ getVoteCount(dash.e, dash.i).ok

\* The results were published between the read of the count and the read of
\* the flag; the first candidate's votes were fetched, the second's are next.
C37_Witness ==
    /\ dash.pc = "getVoteCount"
    /\ dash.i = 1
    /\ ~dash.wasPublished
    /\ candidates[dash.e][0].voteCount > 0

====
